---- MODULE Spec2Model ----
(***************************************************************************)
(* Model of sunbeam's manifest handling:                                   *)
(*   - AddManifestStep (core/manifest.py) probing and writing the cluster  *)
(*     database's manifest store,                                          *)
(*   - CaasConfigureStep (features/caas/feature.py),                       *)
(*   - the plans built by DnsFeature.run_enable_plans and                  *)
(*     CaasFeature.configure, executed by run_plan,                        *)
(*   - SoftwareConfig.get_default and SoftwareConfig.validate_against_     *)
(*     default,                                                            *)
(*   - Manifest.merge and SoftwareConfig.merge over objects on a heap,     *)
(*   - two plans writing the manifest store at the same time,              *)
(*   - CaasFeature.add_manifest_section.                                   *)
(***************************************************************************)
EXTENDS Integers, Sequences, FiniteSets, TLC

VARIABLES
    store,          \* cluster database: the sequence of serialized manifests
    store0,         \* the store as it was when the current plan was built
    plan,           \* the plan in execution: a sequence of step kinds
    idx,            \* position of run_plan in the plan
    pc,             \* what run_plan does next
    log,            \* calls made by run_plan so far, with their outcomes
    self,           \* the AddManifestStep instance of the plan
    risk,           \* infer_risk(snap)
    embedded,       \* the file at embedded_manifest_path(snap, risk)
    caas_config,    \* manifest.software.extra["caas_config"] of the caas feature
    result,         \* the Result (or exception) of the last call
    lastDone,       \* inputs of the AddManifestStep whose run wrote the latest snapshot
    cfg,            \* state of the SoftwareConfig and Manifest operations
    procs           \* the plans running at the same time against one store

vars == <<store, store0, plan, idx, pc, log, self, risk, embedded,
          caas_config, result, lastDone, cfg, procs>>

stepVars == <<store, store0, plan, idx, pc, log, self, risk, embedded,
              caas_config, result, lastDone, procs>>

(***************************************************************************)
(* Bounds                                                                  *)
(***************************************************************************)
MaxStore == 2

(***************************************************************************)
(* YAML documents and their parsed values                                  *)
(***************************************************************************)
None == "None"
EMPTY_MANIFEST == "charms:{},terraform:{}"

\* a text is a record: the value it parses to and how it is written down
Doc(v, f) == [val |-> v, fmt |-> f]
Malformed == Doc("?", "malformed")
Unreadable == Doc("?", "unreadable")
NoFile == Doc("?", "nofile")

Readable(file) == file.fmt # "unreadable"
WellFormed(text) == text.fmt # "malformed"

\* yaml.safe_load of a well-formed text; an empty document loads as None
safe_load(text) == text.val

\* yaml.safe_dump always writes the canonical form
safe_dump(value) == Doc(value, "canon")

STABLE == "stable"
RiskLevel == {"stable", "edge"}

\* the content of the manifest embedded for a risk level
embedded_manifest_path(r) == Doc("default-" \o r, "canon")

(***************************************************************************)
(* Manifest store adapter (client.cluster)                                 *)
(***************************************************************************)
\* get_latest_manifest(): the latest snapshot, not-found, or service unavailable
get_latest_manifest(st, up) ==
    IF ~up THEN [kind |-> "ClusterServiceUnavailableException", data |-> NoFile]
    ELSE IF st = <<>> THEN [kind |-> "ManifestItemNotFoundException", data |-> NoFile]
    ELSE [kind |-> "found", data |-> st[Len(st)]]

(***************************************************************************)
(* Results                                                                 *)
(***************************************************************************)
SKIPPED == "SKIPPED"
COMPLETED == "COMPLETED"
FAILED == "FAILED"
\* an exception leaving the method instead of a Result
RAISED == "RAISED"

Result(type, message) == [type |-> type, message |-> message]
NoResult == Result("none", "")

(***************************************************************************)
(* AddManifestStep                                                         *)
(***************************************************************************)
AddManifestStep(manifest_file, clear) ==
    [manifest_file |-> manifest_file, clear |-> clear, manifest_content |-> None]

NoStep == AddManifestStep(NoFile, FALSE)

\* first try block of is_skip: the embedded manifest, then the user's file
\* or the clear request
LoadFails(s, emb) ==
    \/ ~Readable(emb)
    \/ ~WellFormed(emb)
    \/ /\ s.manifest_file # NoFile
       /\ ~Readable(s.manifest_file) \/ ~WellFormed(s.manifest_file)

LoadedContent(s) ==
    IF s.manifest_file # NoFile THEN safe_load(s.manifest_file)
    ELSE IF s.clear THEN EMPTY_MANIFEST
    ELSE s.manifest_content

\* manifest_content once the store has answered
DesiredContent(s, r, emb, resp) ==
    IF /\ resp.kind = "ManifestItemNotFoundException"
       /\ LoadedContent(s) = None
       /\ r # STABLE
    THEN safe_load(emb)
    ELSE LoadedContent(s)

\* faulty variant: the serialized texts are compared instead of the parsed contents
SameAsLatest_Text(resp, content) ==
    /\ resp.kind = "found"
    /\ resp.data = safe_dump(content)

\* faulty variant: the snapshot's text is compared unparsed with the parsed content,
\* and a text never equals a mapping
SameAsLatest_Unparsed(resp, content) ==
    /\ resp.kind = "found"
    /\ resp.data = Doc(content, "parsed")

\* the comparison of the latest snapshot with the desired content
SameAsLatest(resp, content) ==
    /\ resp.kind = "found"
    /\ safe_load(resp.data) = content

\* is_skip: the outcome and the manifest_content it leaves on the instance
is_skip(s, r, emb, resp) ==
    IF LoadFails(s, emb)
    THEN [out |-> Result(FAILED, "Failed to load manifest"),
          manifest_content |-> s.manifest_content]
    ELSE IF resp.kind = "ClusterServiceUnavailableException"
    THEN [out |-> Result(FAILED, "ClusterServiceUnavailableException"),
          manifest_content |-> LoadedContent(s)]
    ELSE IF /\ resp.kind = "ManifestItemNotFoundException"
            /\ LoadedContent(s) = None
            /\ r = STABLE
    THEN [out |-> Result(SKIPPED, ""), manifest_content |-> None]
    ELSE IF DesiredContent(s, r, emb, resp) = None
    THEN [out |-> Result(SKIPPED, ""), manifest_content |-> None]
    ELSE IF resp.kind = "found" /\ ~WellFormed(resp.data)
    THEN [out |-> Result(RAISED, "yaml.YAMLError"),
          manifest_content |-> DesiredContent(s, r, emb, resp)]
    ELSE IF SameAsLatest(resp, DesiredContent(s, r, emb, resp))
    THEN [out |-> Result(SKIPPED, ""),
          manifest_content |-> DesiredContent(s, r, emb, resp)]
    ELSE [out |-> Result(COMPLETED, ""),
          manifest_content |-> DesiredContent(s, r, emb, resp)]

\* add_manifest(data): appends and returns the identifier of the new snapshot
add_manifest(st, data) == Append(st, data)

\* faulty variant: run looks at the latest snapshot again and does not write
\* a content the store already holds as latest
run_CompareFirst(s, st, up) ==
    IF up /\ st # <<>> /\ WellFormed(st[Len(st)])
          /\ safe_load(st[Len(st)]) = s.manifest_content
    THEN [out |-> Result(SKIPPED, ""), store |-> st]
    ELSE IF up
    THEN [out |-> Result(COMPLETED, ToString(Len(add_manifest(st, safe_dump(s.manifest_content))))),
          store |-> add_manifest(st, safe_dump(s.manifest_content))]
    ELSE [out |-> Result(FAILED, "ClusterServiceUnavailableException"),
          store |-> st]

\* run: the outcome and the store it leaves
run(s, st, up) ==
    IF up
    THEN [out |-> Result(COMPLETED, ToString(Len(add_manifest(st, safe_dump(s.manifest_content))))),
          store |-> add_manifest(st, safe_dump(s.manifest_content))]
    ELSE [out |-> Result(FAILED, "ClusterServiceUnavailableException"),
          store |-> st]

(***************************************************************************)
(* CaasConfigureStep                                                       *)
(***************************************************************************)
\* what manifest.software.extra holds under "caas_config"
CaasPayloads == {"absent", "CaasConfig", "dict"}

\* run: extra["caas_config"] raises KeyError when the key is absent; a
\* CaasConfig dataclass or a dict has no model_dump (AttributeError, ignored);
\* then terraform is applied
CaasConfigureStep_run(payload, tf_ok) ==
    IF payload = "absent" THEN Result(RAISED, "KeyError")
    ELSE IF tf_ok THEN Result(COMPLETED, "")
    ELSE Result(FAILED, "TerraformException")

(***************************************************************************)
(* run_plan                                                                *)
(***************************************************************************)
Advance(i, p) ==
    IF i < Len(p) THEN [pc |-> "is_skip", idx |-> i + 1]
    ELSE [pc |-> "done", idx |-> i]

\* faulty variant: a failed probe does not abort the plan
AfterIsSkip_NoAbort(type, i, p) ==
    IF type \in {SKIPPED, FAILED} THEN Advance(i, p)
    ELSE IF type = RAISED THEN [pc |-> "raised", idx |-> i]
    ELSE [pc |-> "run", idx |-> i]

\* faulty variant: run is called whatever the probe said, unless it failed
AfterIsSkip_AlwaysRun(type, i, p) ==
    IF type = FAILED THEN [pc |-> "aborted", idx |-> i]
    ELSE IF type = RAISED THEN [pc |-> "raised", idx |-> i]
    ELSE [pc |-> "run", idx |-> i]

\* after step.is_skip(): skip the step, abort, or go on to step.run()
AfterIsSkip(type, i, p) ==
    IF type = SKIPPED THEN Advance(i, p)
    ELSE IF type = FAILED THEN [pc |-> "aborted", idx |-> i]
    ELSE IF type = RAISED THEN [pc |-> "raised", idx |-> i]
    ELSE [pc |-> "run", idx |-> i]

\* after step.run(): next step, or abort
AfterRun(type, i, p) ==
    IF type = COMPLETED THEN Advance(i, p)
    ELSE IF type = FAILED THEN [pc |-> "aborted", idx |-> i]
    ELSE [pc |-> "raised", idx |-> i]

Call(i, op, out, resp) ==
    [step |-> i, op |-> op, type |-> out.type, resp |-> resp]

Idle == pc \in {"idle", "done", "aborted", "raised"}

(***************************************************************************)
(* Inputs                                                                  *)
(***************************************************************************)
UserFiles ==
    {Doc("A", "canon"), Doc("A", "alt"), Doc("B", "canon"),
     Doc(None, "canon"), Malformed, Unreadable}

EmbeddedFiles(r) == {embedded_manifest_path(r), Unreadable}

NoInputs == [file |-> NoFile, clear |-> FALSE, risk |-> "none", embedded |-> NoFile]
Inputs(s, r, emb) ==
    [file |-> s.manifest_file, clear |-> s.clear, risk |-> r, embedded |-> emb]

InitStores == {<<>>, <<Doc("A", "alt")>>, <<Malformed>>}

(***************************************************************************)
(* Plans                                                                   *)
(***************************************************************************)
StartPlan(p, s, r, emb, caas) ==
    /\ Idle
    /\ Len(store) < MaxStore
    /\ plan' = p
    /\ self' = s
    /\ risk' = r
    /\ embedded' = emb
    /\ caas_config' = caas
    /\ idx' = 1
    /\ pc' = "is_skip"
    /\ log' = <<>>
    /\ result' = NoResult
    /\ store0' = store
    /\ UNCHANGED <<store, lastDone, cfg, procs>>

\* DnsFeature.run_enable_plans
run_enable_plans ==
    \E user_manifest \in UserFiles \cup {NoFile}, r \in RiskLevel :
        \E emb \in EmbeddedFiles(r) :
            StartPlan((IF user_manifest # NoFile THEN <<"AddManifestStep">> ELSE <<>>)
                        \o <<"TerraformInitStep", "EnableOpenStackApplicationStep",
                             "PatchBindLoadBalancerStep">>,
                      IF user_manifest # NoFile
                      THEN AddManifestStep(user_manifest, FALSE) ELSE NoStep,
                      r, emb, caas_config)

\* CaasFeature.configure
configure ==
    \E caas \in CaasPayloads :
        StartPlan(<<"TerraformInitStep", "CaasConfigureStep">>, NoStep,
                  risk, embedded, caas)

\* a plan holding an AddManifestStep built with any manifest_file and clear
write_manifest ==
    \E file \in UserFiles \cup {NoFile}, clear \in BOOLEAN, r \in RiskLevel :
        \E emb \in EmbeddedFiles(r) :
            StartPlan(<<"AddManifestStep">>, AddManifestStep(file, clear),
                      r, emb, caas_config)

(***************************************************************************)
(* Steps of a plan in execution                                            *)
(***************************************************************************)
\* faulty variant: the probe itself writes the content it found missing
AddManifestStep_is_skip_Writes ==
    /\ pc = "is_skip"
    /\ plan[idx] = "AddManifestStep"
    /\ \E up \in BOOLEAN :
        LET resp == get_latest_manifest(store, up)
            r == is_skip(self, risk, embedded, resp)
            next == AfterIsSkip(r.out.type, idx, plan)
        IN /\ self' = [self EXCEPT !.manifest_content = r.manifest_content]
           /\ result' = r.out
           /\ log' = Append(log, Call(idx, "is_skip", r.out, resp.kind))
           /\ store' = IF r.out.type = COMPLETED
                       THEN add_manifest(store, safe_dump(r.manifest_content))
                       ELSE store
           /\ pc' = next.pc
           /\ idx' = next.idx
    /\ UNCHANGED <<store0, plan, risk, embedded, caas_config, lastDone, cfg, procs>>

AddManifestStep_is_skip ==
    /\ pc = "is_skip"
    /\ plan[idx] = "AddManifestStep"
    /\ \E up \in BOOLEAN :
        LET resp == get_latest_manifest(store, up)
            r == is_skip(self, risk, embedded, resp)
            next == AfterIsSkip(r.out.type, idx, plan)
        IN /\ self' = [self EXCEPT !.manifest_content = r.manifest_content]
           /\ result' = r.out
           /\ log' = Append(log, Call(idx, "is_skip", r.out, resp.kind))
           /\ pc' = next.pc
           /\ idx' = next.idx
    /\ UNCHANGED <<store, store0, plan, risk, embedded, caas_config, lastDone, cfg, procs>>

AddManifestStep_run ==
    /\ pc = "run"
    /\ plan[idx] = "AddManifestStep"
    /\ \E up \in BOOLEAN :
        LET r == run(self, store, up)
            next == AfterRun(r.out.type, idx, plan)
        IN /\ store' = r.store
           /\ result' = r.out
           /\ log' = Append(log, Call(idx, "run", r.out, IF up THEN "ok" ELSE "unavailable"))
           /\ lastDone' = IF r.out.type = COMPLETED
                          THEN Inputs(self, risk, embedded) ELSE lastDone
           /\ pc' = next.pc
           /\ idx' = next.idx
    /\ UNCHANGED <<store0, plan, self, risk, embedded, caas_config, cfg, procs>>

\* BaseStep.is_skip, which CaasConfigureStep does not override
CaasConfigureStep_is_skip ==
    /\ pc = "is_skip"
    /\ plan[idx] = "CaasConfigureStep"
    /\ LET out == Result(COMPLETED, "")
           next == AfterIsSkip(out.type, idx, plan)
       IN /\ result' = out
          /\ log' = Append(log, Call(idx, "is_skip", out, ""))
          /\ pc' = next.pc
          /\ idx' = next.idx
    /\ UNCHANGED <<store, store0, plan, self, risk, embedded, caas_config, lastDone, cfg, procs>>

CaasConfigureStep_run_step ==
    /\ pc = "run"
    /\ plan[idx] = "CaasConfigureStep"
    /\ \E tf_ok \in BOOLEAN :
        LET out == CaasConfigureStep_run(caas_config, tf_ok)
            next == AfterRun(out.type, idx, plan)
        IN /\ result' = out
           /\ log' = Append(log, Call(idx, "run", out, ""))
           /\ pc' = next.pc
           /\ idx' = next.idx
    /\ UNCHANGED <<store, store0, plan, self, risk, embedded, caas_config, lastDone, cfg, procs>>

\* the steps whose code lies outside these files: any Result may come back
OtherSteps ==
    {"TerraformInitStep", "EnableOpenStackApplicationStep", "PatchBindLoadBalancerStep"}

OtherStep_is_skip ==
    /\ pc = "is_skip"
    /\ plan[idx] \in OtherSteps
    /\ \E type \in {SKIPPED, COMPLETED, FAILED} :
        LET out == Result(type, "")
            next == AfterIsSkip(type, idx, plan)
        IN /\ result' = out
           /\ log' = Append(log, Call(idx, "is_skip", out, ""))
           /\ pc' = next.pc
           /\ idx' = next.idx
    /\ UNCHANGED <<store, store0, plan, self, risk, embedded, caas_config, lastDone, cfg, procs>>

OtherStep_run ==
    /\ pc = "run"
    /\ plan[idx] \in OtherSteps
    /\ \E type \in {COMPLETED, FAILED} :
        LET out == Result(type, "")
            next == AfterRun(type, idx, plan)
        IN /\ result' = out
           /\ log' = Append(log, Call(idx, "run", out, ""))
           /\ pc' = next.pc
           /\ idx' = next.idx
    /\ UNCHANGED <<store, store0, plan, self, risk, embedded, caas_config, lastDone, cfg, procs>>

(***************************************************************************)
(* SoftwareConfig: dicts are sequences of items in insertion order         *)
(***************************************************************************)
MaxKeys == 2
MaxFeatures == 2

Item(k, v) == [k |-> k, v |-> v]
Keys(d) == {d[i].k : i \in DOMAIN d}
Get(d, k) == d[CHOOSE i \in DOMAIN d : d[i].k = k].v

\* d[k] = v
Put(d, k, v) ==
    IF k \in Keys(d)
    THEN [i \in DOMAIN d |-> IF d[i].k = k THEN Item(k, v) ELSE d[i]]
    ELSE Append(d, Item(k, v))

SoftwareConfig(charms, terraform, extra) ==
    [charms |-> charms, terraform |-> terraform, extra |-> extra]

NoError == [feature |-> "", what |-> "", key |-> ""]
ValueError(feature, what, key) == [feature |-> feature, what |-> what, key |-> key]

\* the charms and terraform plans of the core
MANIFEST_CHARM_VERSIONS == <<Item("keystone-k8s", "core")>>
TERRAFORM_DIR_NAMES == <<Item("openstack-plan", "core")>>

RECURSIVE AddItems_Override(_, _, _, _)
\* faulty variant: a key already present is overridden without an error
AddItems_Override(acc, items, feature, what) ==
    IF items = <<>> THEN [error |-> NoError, dict |-> acc]
    ELSE AddItems_Override(Put(acc, Head(items).k, Head(items).v), Tail(items),
                           feature, what)

RECURSIVE AddItems(_, _, _, _)
\* for key, value in items: if key in acc: raise ValueError; acc[key] = value
AddItems(acc, items, feature, what) ==
    IF items = <<>> THEN [error |-> NoError, dict |-> acc]
    ELSE IF Head(items).k \in Keys(acc)
    THEN [error |-> ValueError(feature, what, Head(items).k), dict |-> acc]
    ELSE AddItems(Put(acc, Head(items).k, Head(items).v), Tail(items), feature, what)

RECURSIVE AddFeatures(_, _)
\* for feature, software in feature_softwares.items(): charms, then
\* terraform, then extra
AddFeatures(acc, features) ==
    IF features = <<>> THEN acc
    ELSE LET f == Head(features)
             c == AddItems(acc.charms, f.software.charms, f.name, "charm")
             t == AddItems(acc.terraform, f.software.terraform, f.name, "tfplan")
             e == AddItems(acc.extra, f.software.extra, f.name, "extra key")
         IN IF c.error # NoError THEN [acc EXCEPT !.error = c.error]
            ELSE IF t.error # NoError THEN [acc EXCEPT !.error = t.error]
            ELSE IF e.error # NoError THEN [acc EXCEPT !.error = e.error]
            ELSE AddFeatures([error |-> NoError, charms |-> c.dict,
                              terraform |-> t.dict, extra |-> e.dict],
                             Tail(features))

\* SoftwareConfig.get_default: the error raised, or the config returned
get_default(feature_softwares) ==
    IF ~feature_softwares.given
    THEN [error |-> NoError, charms |-> MANIFEST_CHARM_VERSIONS,
          terraform |-> TERRAFORM_DIR_NAMES, extra |-> <<>>]
    ELSE AddFeatures([error |-> NoError, charms |-> MANIFEST_CHARM_VERSIONS,
                      terraform |-> TERRAFORM_DIR_NAMES, extra |-> <<>>],
                     feature_softwares.items)

\* validate_terraform_keys: TRUE when ValueError is raised
validate_terraform_keys(config, default_software_config) ==
    /\ config.terraform # <<>>
    /\ ~(Keys(config.terraform) \subseteq Keys(default_software_config.terraform))

\* faulty variant: < instead of <=
validate_charm_keys_Proper(config, default_software_config) ==
    /\ config.charms # <<>>
    /\ ~(/\ Keys(config.charms) \subseteq Keys(default_software_config.charms)
         /\ Keys(config.charms) # Keys(default_software_config.charms))

\* validate_charm_keys: TRUE when ValueError is raised
validate_charm_keys(config, default_software_config) ==
    /\ config.charms # <<>>
    /\ ~(Keys(config.charms) \subseteq Keys(default_software_config.charms))

\* validate_against_default: TRUE when ValueError is raised
validate_against_default(config, default_software_config) ==
    \/ validate_terraform_keys(config, default_software_config)
    \/ validate_charm_keys(config, default_software_config)

(***************************************************************************)
(* Inputs of the SoftwareConfig operations                                 *)
(***************************************************************************)
CharmNames == {"keystone-k8s", "designate-k8s", "magnum-k8s"}
PlanNames == {"openstack-plan", "caas-setup"}
ExtraNames == {"caas_config"}
FeatureNames == <<"dns", "caas", "secrets", "vault">>

\* the dicts with at most MaxKeys distinct keys of names, every value v
Dicts(names, v) ==
    {d \in UNION {[1..n -> {Item(k, v) : k \in names}] : n \in 0..MaxKeys} :
        \A i, j \in DOMAIN d : i # j => d[i].k # d[j].k}

Fragments(v) ==
    {SoftwareConfig(c, t, e) :
        c \in Dicts(CharmNames \ {"magnum-k8s"}, v), t \in Dicts(PlanNames, v),
        e \in Dicts(ExtraNames, v)}

\* the fragment sw with every value marked as given by feature name
FragmentOf(sw, name) ==
    SoftwareConfig([i \in DOMAIN sw.charms |-> Item(sw.charms[i].k, name)],
                   [i \in DOMAIN sw.terraform |-> Item(sw.terraform[i].k, name)],
                   [i \in DOMAIN sw.extra |-> Item(sw.extra[i].k, name)])

\* feature_softwares: the dict of the features FeatureNames[1..n] with the
\* fragments g[1..n]
FeatureSoftwares(n, g) ==
    [given |-> TRUE,
     items |-> [i \in 1..n |-> [name |-> FeatureNames[i],
                                software |-> FragmentOf(g[i], FeatureNames[i])]]]

Candidates ==
    {SoftwareConfig(c, t, e) :
        c \in Dicts(CharmNames, "user"), t \in Dicts(PlanNames, "user"),
        e \in Dicts(ExtraNames, "user")}

Defaults ==
    {SoftwareConfig(c, t, <<>>) :
        c \in Dicts(CharmNames, "core"), t \in Dicts(PlanNames, "core")}

NoConfig == SoftwareConfig(<<>>, <<>>, <<>>)
NoCfg ==
    [op |-> "none", done |-> FALSE, feature_softwares |-> [given |-> FALSE, items |-> <<>>],
     config |-> NoConfig, default |-> NoConfig, error |-> NoError, raised |-> FALSE,
     value |-> NoConfig]

get_default_call ==
    /\ cfg.op = "get_default"
    /\ ~cfg.done
    /\ LET r == get_default(cfg.feature_softwares)
       IN cfg' = [cfg EXCEPT !.done = TRUE,
                             !.error = r.error,
                             !.raised = r.error # NoError,
                             !.value = IF r.error # NoError THEN NoConfig
                                       ELSE SoftwareConfig(r.charms, r.terraform, r.extra)]
    /\ UNCHANGED stepVars

validate_against_default_call ==
    /\ cfg.op = "validate_against_default"
    /\ ~cfg.done
    /\ cfg' = [cfg EXCEPT !.done = TRUE,
                          !.raised = validate_against_default(cfg.config, cfg.default)]
    /\ UNCHANGED stepVars

(***************************************************************************)
(* Specifications                                                          *)
(***************************************************************************)
Init ==
    /\ store \in InitStores
    /\ store0 = store
    /\ plan = <<>>
    /\ idx = 0
    /\ pc = "idle"
    /\ log = <<>>
    /\ self = NoStep
    /\ risk = STABLE
    /\ embedded = embedded_manifest_path(STABLE)
    /\ caas_config = "absent"
    /\ result = NoResult
    /\ lastDone = NoInputs
    /\ procs = <<>>
    /\ cfg = NoCfg

Next ==
    \/ run_enable_plans
    \/ configure
    \/ write_manifest
    \/ AddManifestStep_is_skip
    \/ AddManifestStep_run
    \/ CaasConfigureStep_is_skip
    \/ CaasConfigureStep_run_step
    \/ OtherStep_is_skip
    \/ OtherStep_run

Spec == Init /\ [][Next]_vars

InitConfig ==
    /\ store = <<>>
    /\ store0 = <<>>
    /\ plan = <<>>
    /\ idx = 0
    /\ pc = "idle"
    /\ log = <<>>
    /\ self = NoStep
    /\ risk = STABLE
    /\ embedded = embedded_manifest_path(STABLE)
    /\ caas_config = "absent"
    /\ result = NoResult
    /\ lastDone = NoInputs
    /\ procs = <<>>
    /\ \/ cfg = [NoCfg EXCEPT !.op = "get_default"]
       \/ \E n \in 0..MaxFeatures : \E g \in [1..n -> Fragments("")] :
            cfg = [NoCfg EXCEPT !.op = "get_default",
                                !.feature_softwares = FeatureSoftwares(n, g)]
       \/ \E c \in Candidates, d \in Defaults :
            cfg = [NoCfg EXCEPT !.op = "validate_against_default",
                                !.config = c, !.default = d]

NextConfig ==
    \/ get_default_call
    \/ validate_against_default_call

SpecConfig == InitConfig /\ [][NextConfig]_vars

(***************************************************************************)
(* Properties of plans and steps                                           *)
(***************************************************************************)
LastCall == log[Len(log)]

\* the AddManifestStep of the plan has just been probed
ProbeDone ==
    /\ Len(log) > 0
    /\ plan[LastCall.step] = "AddManifestStep"
    /\ LastCall.op = "is_skip"

\* the AddManifestStep of the plan has just been run
RunDone ==
    /\ Len(log) > 0
    /\ plan[LastCall.step] = "AddManifestStep"
    /\ LastCall.op = "run"

\* C1: fail-fast. Once a call of a plan returned FAILED no later call is
\* made, the plan is aborted, and the calls made follow the plan's order
\* without leaving a step out.
C1_FailFast ==
    \A k \in 1..Len(log) :
        /\ log[k].type = FAILED => (k = Len(log) /\ pc = "aborted")
        /\ k = 1 => log[k].step = 1
        /\ k > 1 => log[k].step \in {log[k-1].step, log[k-1].step + 1}

\* [A skips, B fails, C]: C is never invoked
C1_Witness ==
    /\ pc = "aborted"
    /\ Len(plan) >= 3
    /\ Len(log) = 2
    /\ log[1].step = 1 /\ log[1].type = SKIPPED
    /\ log[2].step = 2 /\ log[2].type = FAILED

\* C2: two-phase protocol. run is called only right after the same step's
\* is_skip returned COMPLETED; a step whose is_skip returned SKIPPED or
\* FAILED gets no further call; no step is probed or run twice, and no call
\* on a step follows its run.
C2_TwoPhase ==
    \A k \in 1..Len(log) :
        /\ log[k].op = "run" =>
              /\ k > 1
              /\ log[k-1].step = log[k].step
              /\ log[k-1].op = "is_skip"
              /\ log[k-1].type = COMPLETED
        /\ (log[k].op = "is_skip" /\ log[k].type \in {SKIPPED, FAILED}) =>
              \A j \in 1..Len(log) : log[j].step = log[k].step => j = k
        /\ \A j \in 1..Len(log) :
              (j > k /\ log[j].step = log[k].step) =>
                  (log[k].op = "is_skip" /\ log[j].op = "run" /\ j = k + 1)

\* a plan in which the AddManifestStep was probed and run and a later step
\* was skipped
C2_Witness ==
    /\ \E k \in 1..Len(log) :
          /\ plan[log[k].step] = "AddManifestStep"
          /\ log[k].op = "run"
          /\ log[k].type = COMPLETED
    /\ \E k \in 1..Len(log) : log[k].type = SKIPPED
    /\ pc = "done"

\* C3: skip-equality. When the probe gets the latest snapshot and has a
\* desired content, it returns SKIPPED if the snapshot's content equals the
\* desired content and COMPLETED (needs run) if it differs; the run that
\* follows, when the store accepts the write, appends exactly the serialized
\* desired content and returns COMPLETED with the identifier of that write.
C3_SkipEquality ==
    /\ (/\ ProbeDone
        /\ LastCall.resp = "found"
        /\ WellFormed(store[Len(store)])
        /\ result.type # FAILED
        /\ self.manifest_content # None)
       => /\ safe_load(store[Len(store)]) = self.manifest_content
                => result.type = SKIPPED
          /\ safe_load(store[Len(store)]) # self.manifest_content
                => result.type = COMPLETED
    /\ (RunDone /\ LastCall.resp = "ok")
       => /\ result.type = COMPLETED
          /\ store = Append(store0, safe_dump(self.manifest_content))
          /\ safe_load(store[Len(store)]) = self.manifest_content
          /\ result.message = ToString(Len(store))

\* the store held a well-formed snapshot and a step whose desired content
\* differs from it was probed and run
C3_Witness ==
    /\ RunDone
    /\ result.type = COMPLETED
    /\ Len(store0) > 0
    /\ WellFormed(store0[Len(store0)])
    /\ safe_load(store0[Len(store0)]) # self.manifest_content

\* the desired content as the claim C4 states it
C4_Expected ==
    IF self.manifest_file # NoFile THEN safe_load(self.manifest_file)
    ELSE IF self.clear THEN EMPTY_MANIFEST
    ELSE IF store0 = <<>> /\ risk # STABLE THEN safe_load(embedded)
    ELSE None

\* C4: desired-content selection. After a probe that did not fail, the
\* desired content is the file's content when a file is given, else the
\* empty manifest when clear is set, else the embedded default when the store
\* has no prior manifest and the tier is not stable; otherwise there is none,
\* the probe returns SKIPPED and nothing is written.
C4_DesiredContent ==
    (ProbeDone /\ result.type \notin {FAILED, RAISED})
    => /\ self.manifest_content = C4_Expected
       /\ C4_Expected = None => (result.type = SKIPPED /\ store = store0)

\* C5: stable-tier no-seed. With no prior manifest in the store, no file, no
\* clear request and the stable tier, the probe returns SKIPPED and writes
\* nothing, whatever the state of the embedded default file.
C5_StableNoSeed ==
    (/\ ProbeDone
     /\ store0 = <<>>
     /\ LastCall.resp = "ManifestItemNotFoundException"
     /\ self.manifest_file = NoFile
     /\ ~self.clear
     /\ risk = STABLE)
    => (result.type = SKIPPED /\ store = store0)

\* C6: failure containment of the probe. is_skip never raises; an unreadable
\* or malformed file, an unavailable store and a malformed latest snapshot
\* give FAILED; not-found alone does not.
C6_ProbeContained ==
    ProbeDone
    => /\ result.type # RAISED
       /\ (LoadFails(self, embedded)
           \/ LastCall.resp = "ClusterServiceUnavailableException")
             => result.type = FAILED
       /\ (LastCall.resp = "found" /\ ~WellFormed(store[Len(store)])
           /\ ~LoadFails(self, embedded) /\ self.manifest_content # None)
             => result.type = FAILED
       /\ (LastCall.resp = "ManifestItemNotFoundException"
           /\ ~LoadFails(self, embedded))
             => result.type # FAILED

\* C7: failure containment of run. Every run of an AddManifestStep or a
\* CaasConfigureStep ends in a COMPLETED or a FAILED Result; no exception
\* leaves run.
C7_RunContained ==
    \A k \in 1..Len(log) :
        (log[k].op = "run" /\ plan[log[k].step] \in {"AddManifestStep", "CaasConfigureStep"})
        => log[k].type \in {COMPLETED, FAILED}

\* C8: idempotent re-execution. After a run wrote the latest snapshot, a
\* fresh AddManifestStep with the same inputs whose probe reaches the store
\* returns SKIPPED and writes nothing; the store never holds two consecutive
\* snapshots of equal content.
C8_Idempotent ==
    /\ (/\ ProbeDone
        /\ Inputs(self, risk, embedded) = lastDone
        /\ LastCall.resp # "ClusterServiceUnavailableException")
       => (result.type = SKIPPED /\ store = store0)
    /\ \A i \in 1..(Len(store) - 1) :
          (WellFormed(store[i]) /\ WellFormed(store[i+1]))
          => safe_load(store[i]) # safe_load(store[i+1])

\* a second execution with the inputs of the step that wrote the latest
\* snapshot, from a file written differently from what the store holds
C8_Witness ==
    /\ ProbeDone
    /\ Inputs(self, risk, embedded) = lastDone
    /\ self.manifest_file = Doc("A", "alt")
    /\ result.type = SKIPPED
    /\ store = <<safe_dump("A")>>

(***************************************************************************)
(* Properties of the SoftwareConfig operations                             *)
(***************************************************************************)
CoreKeys(what) ==
    IF what = "charm" THEN Keys(MANIFEST_CHARM_VERSIONS)
    ELSE IF what = "tfplan" THEN Keys(TERRAFORM_DIR_NAMES)
    ELSE {}

FragmentKeys(f, what) ==
    IF what = "charm" THEN Keys(f.software.charms)
    ELSE IF what = "tfplan" THEN Keys(f.software.terraform)
    ELSE Keys(f.software.extra)

FragmentDict(f, what) ==
    IF what = "charm" THEN f.software.charms
    ELSE IF what = "tfplan" THEN f.software.terraform
    ELSE f.software.extra

\* feature i of fs declares key, which the core or an earlier feature declared
Collision(fs, i, what, key) ==
    /\ key \in FragmentKeys(fs[i], what)
    /\ \/ key \in CoreKeys(what)
       \/ \E j \in 1..(i - 1) : key \in FragmentKeys(fs[j], what)

Kinds == {"charm", "tfplan", "extra key"}

AllKeys(fs, what) ==
    CoreKeys(what) \cup UNION {FragmentKeys(fs[i], what) : i \in DOMAIN fs}

ValueDict(c, what) ==
    IF what = "charm" THEN c.charms
    ELSE IF what = "tfplan" THEN c.terraform
    ELSE c.extra

\* C9: collision detection. get_default raises exactly when some fragment
\* declares a charms or terraform key the core or an earlier feature
\* declared, or an extra key an earlier feature declared; the error names a
\* feature and a key that collide; without a collision the result's key sets
\* are the unions of the core's and the fragments' keys and every feature's
\* key holds the value that feature gave it.
C9_Collision ==
    (cfg.op = "get_default" /\ cfg.done)
    => LET fs == cfg.feature_softwares.items
       IN /\ cfg.raised <=>
                \E i \in DOMAIN fs, what \in Kinds :
                    \E key \in FragmentKeys(fs[i], what) : Collision(fs, i, what, key)
          /\ cfg.raised =>
                /\ cfg.value = NoConfig
                /\ \E i \in DOMAIN fs :
                      /\ fs[i].name = cfg.error.feature
                      /\ Collision(fs, i, cfg.error.what, cfg.error.key)
          /\ ~cfg.raised =>
                \A what \in Kinds :
                    /\ Keys(ValueDict(cfg.value, what)) = AllKeys(fs, what)
                    /\ \A i \in DOMAIN fs : \A key \in FragmentKeys(fs[i], what) :
                          Get(ValueDict(cfg.value, what), key)
                              = Get(FragmentDict(fs[i], what), key)

\* two features declare the same charm and the second one is named
C9_Witness ==
    /\ cfg.op = "get_default"
    /\ cfg.done
    /\ cfg.raised
    /\ cfg.error = ValueError("caas", "charm", "designate-k8s")
    /\ Len(cfg.feature_softwares.items) = 2

\* C10: validation subset law. validate_against_default raises exactly when
\* the candidate's charms keys are not a subset of the default's charms keys
\* or its terraform keys are not a subset of the default's terraform keys;
\* the extra keys play no part.
C10_SubsetLaw ==
    (cfg.op = "validate_against_default" /\ cfg.done)
    => (cfg.raised <=>
          \/ \E k \in Keys(cfg.config.charms) : k \notin Keys(cfg.default.charms)
          \/ \E k \in Keys(cfg.config.terraform) : k \notin Keys(cfg.default.terraform))

\* a candidate with all the default's charms, no terraform plan and an extra
\* key the default does not have passes
C10_Witness ==
    /\ cfg.op = "validate_against_default"
    /\ cfg.done
    /\ ~cfg.raised
    /\ cfg.config.terraform = <<>>
    /\ cfg.config.charms # <<>>
    /\ Keys(cfg.config.charms) = Keys(cfg.default.charms)
    /\ cfg.config.extra # <<>>
    /\ cfg.default.terraform # <<>>

(***************************************************************************)
(* Objects: the heap holds the dicts and the pydantic objects; a value is  *)
(* a scalar or the address of a cell; a tree is a value read out in full   *)
(***************************************************************************)
Val(t, s, ref) == [t |-> t, s |-> s, ref |-> ref]
Tree(t, s, d) == [t |-> t, s |-> s, d |-> d]

\* the types whose values live in a cell of the heap
RefTypes ==
    {"dict", "Manifest", "SoftwareConfig", "JujuManifest", "CharmManifest",
     "TerraformManifest"}

\* a new cell holding items
New(h, t, items) == [h |-> Append(h, items), v |-> Val(t, "", Len(h) + 1)]

RECURSIVE Reach(_, _)
\* the cells reachable from a value
Reach(h, v) ==
    IF v.t \notin RefTypes THEN {}
    ELSE {v.ref} \cup UNION {Reach(h, h[v.ref][i].v) : i \in DOMAIN h[v.ref]}

RECURSIVE Deep(_, _)
\* the content reachable from a value
Deep(h, v) ==
    IF v.t \notin RefTypes THEN Tree(v.t, v.s, <<>>)
    ELSE Tree(v.t, "", [i \in DOMAIN h[v.ref] |->
                           Item(h[v.ref][i].k, Deep(h, h[v.ref][i].v))])

\* the items of a cell with every address moved by to[_]
Moved(items, to) ==
    [i \in DOMAIN items |->
        Item(items[i].k,
             IF items[i].v.t \in RefTypes
             THEN Val(items[i].v.t, "", to[items[i].v.ref])
             ELSE items[i].v)]

\* faulty variant: the object itself is handed on instead of a copy
deepcopy_None(h, v) == [h |-> h, v |-> v]

\* copy.deepcopy: every object reachable from v is built again in a fresh cell
deepcopy(h, v) ==
    IF v.t \notin RefTypes THEN [h |-> h, v |-> v]
    ELSE LET R == Reach(h, v)
             to == [r \in R |-> Len(h) + Cardinality({x \in R : x <= r})]
             cells == [i \in 1..Cardinality(R) |->
                          Moved(h[CHOOSE r \in R : to[r] = Len(h) + i], to)]
         IN [h |-> h \o cells, v |-> Val(v.t, "", to[v.ref])]

\* BaseModel.model_dump(): a fresh dict of all the fields, defaults included
model_dump(h, v) == New(h, "dict", h[v.ref])

RECURSIVE merge_dict(_, _, _)
RECURSIVE MergeItems(_, _, _)
\* utils.merge_dict(d, u): u merged into d in place; mappings present on both
\* sides are merged recursively, any other value of u replaces d's
merge_dict(h, d, u) == MergeItems(h, d, h[u])

MergeItems(h, d, items) ==
    IF items = <<>> THEN h
    ELSE LET k == Head(items).k
             v == Head(items).v
         IN IF k \in Keys(h[d]) /\ Get(h[d], k).t = "dict" /\ v.t = "dict"
            THEN MergeItems(merge_dict(h, Get(h[d], k).ref, v.ref), d, Tail(items))
            ELSE MergeItems([h EXCEPT ![d] = Put(h[d], k, v)], d, Tail(items))

\* merge_dict(copy.deepcopy(x), copy.deepcopy(y)): the heap and the merged dict
MergeCopies(h, x, y) ==
    LET c1 == deepcopy(h, x)
        c2 == deepcopy(c1.h, y)
    IN [h |-> merge_dict(c2.h, c1.v.ref, c2.v.ref), v |-> c1.v]

\* SoftwareConfig.merge
SoftwareConfig_merge(h, self_, other) ==
    LET sj == model_dump(h, Get(h[self_.ref], "juju"))
        oj == model_dump(sj.h, Get(sj.h[other.ref], "juju"))
        hj == merge_dict(oj.h, sj.v.ref, oj.v.ref)
        juju == New(hj, "JujuManifest", hj[sj.v.ref])
        charms == MergeCopies(juju.h, Get(juju.h[self_.ref], "charms"),
                              Get(juju.h[other.ref], "charms"))
        terraform == MergeCopies(charms.h, Get(charms.h[self_.ref], "terraform"),
                                 Get(charms.h[other.ref], "terraform"))
        extra == MergeCopies(terraform.h, Get(terraform.h[self_.ref], "extra"),
                             Get(terraform.h[other.ref], "extra"))
    IN New(extra.h, "SoftwareConfig",
           <<Item("juju", juju.v), Item("charms", charms.v),
             Item("terraform", terraform.v), Item("extra", extra.v)>>)

\* Manifest.merge
Manifest_merge(h, self_, other) ==
    LET deployment == MergeCopies(h, Get(h[self_.ref], "deployment"),
                                  Get(h[other.ref], "deployment"))
        software == SoftwareConfig_merge(deployment.h,
                                         Get(deployment.h[self_.ref], "software"),
                                         Get(deployment.h[other.ref], "software"))
    IN New(software.h, "Manifest",
           <<Item("deployment", deployment.v), Item("software", software.v)>>)

MaxParts == 1

(***************************************************************************)
(* Inputs of merge: the layer named tag marks its values with tag.  A part *)
(* is given by its cells, the last one its root, addresses counted from    *)
(* the first cell of the part                                              *)
(***************************************************************************)
Str(s) == Val("str", s, 0)
NoneV == Val("None", "", 0)
\* a list; [] when s is empty
List(s) == Val("list", s, 0)
Ref(t, ref) == Val(t, "", ref)

CharmManifest(channel, revision, config) ==
    <<Item("channel", channel), Item("revision", revision), Item("config", config)>>

JujuManifest(bootstrap_args, scale_args) ==
    <<Item("bootstrap_args", bootstrap_args), Item("scale_args", scale_args)>>

CharmDicts(tag) ==
    {<< <<>> >>,
     <<CharmManifest(Str(tag), NoneV, NoneV), <<Item("n", Ref("CharmManifest", 1))>> >>,
     <<CharmManifest(NoneV, Str(tag), NoneV), <<Item("n", Ref("CharmManifest", 1))>> >>,
     << <<Item("opt", Str(tag))>>, CharmManifest(NoneV, NoneV, Ref("dict", 1)),
        <<Item("n", Ref("CharmManifest", 2))>> >>,
     <<CharmManifest(Str(tag), NoneV, NoneV), <<Item(tag, Ref("CharmManifest", 1))>> >>}

DeploymentDicts(tag) ==
    {<< <<>> >>,
     << <<Item("x", Str(tag))>> >>,
     << <<Item("p", Str(tag))>>, <<Item("sub", Ref("dict", 1))>> >>,
     << <<Item(tag, List(tag))>>, <<Item("sub", Ref("dict", 1))>> >>}

JujuManifests(tag) ==
    {<<JujuManifest(List(""), List(""))>>,
     <<JujuManifest(List(tag), List(""))>>,
     <<JujuManifest(List(""), List(tag))>>}

TerraformDicts(tag) ==
    {<< <<>> >>,
     << <<Item("source", Str(tag))>>, <<Item("plan", Ref("TerraformManifest", 1))>> >>}

ExtraDicts(tag) ==
    {<< <<>> >>,
     << <<Item("image_name", Str(tag))>>, <<Item("caas_config", Ref("dict", 1))>> >>}

\* the parts of a manifest when nothing is given
EmptyParts == << << <<>> >>, <<JujuManifest(List(""), List(""))>>, << <<>> >>, << <<>> >>, << <<>> >> >>

\* deployment, juju, charms, terraform and extra, at most MaxParts of them given
Parts(tag) ==
    {x \in DeploymentDicts(tag) \X JujuManifests(tag) \X CharmDicts(tag)
              \X TerraformDicts(tag) \X ExtraDicts(tag) :
        Cardinality({i \in 1..5 : x[i] # EmptyParts[i]}) <= MaxParts}

\* the cells of a part put on the heap
Place(h, cells) ==
    h \o [i \in DOMAIN cells |-> Moved(cells[i], [r \in DOMAIN cells |-> Len(h) + r])]

\* a Manifest of the given parts
NewManifest(h, x) ==
    LET h1 == Place(h, x[1])
        h2 == Place(h1, x[2])
        h3 == Place(h2, x[3])
        h4 == Place(h3, x[4])
        h5 == Place(h4, x[5])
        software == New(h5, "SoftwareConfig",
                        <<Item("juju", Ref("JujuManifest", Len(h2))),
                          Item("charms", Ref("dict", Len(h3))),
                          Item("terraform", Ref("dict", Len(h4))),
                          Item("extra", Ref("dict", Len(h5)))>>)
    IN New(software.h, "Manifest",
           <<Item("deployment", Ref("dict", Len(h1))), Item("software", software.v)>>)

NoVal == Val("None", "", 0)

MergeCfg(x, y) ==
    LET a == NewManifest(<<>>, x)
        b == NewManifest(a.h, y)
    IN [op |-> "merge", done |-> FALSE, mutated |-> FALSE, heap |-> b.h,
        a |-> a.v, b |-> b.v, a0 |-> Deep(b.h, a.v), b0 |-> Deep(b.h, b.v),
        out |-> NoVal]

\* out = a.merge(b)
Manifest_merge_call ==
    /\ cfg.op = "merge"
    /\ ~cfg.done
    /\ LET r == Manifest_merge(cfg.heap, cfg.a, cfg.b)
       IN cfg' = [cfg EXCEPT !.done = TRUE, !.heap = r.h, !.out = r.v]
    /\ UNCHANGED stepVars

\* the caller changes an entry of the result, or adds one
mutate_result ==
    /\ cfg.op = "merge"
    /\ cfg.done
    /\ ~cfg.mutated
    /\ \E r \in Reach(cfg.heap, cfg.out) :
          \E k \in Keys(cfg.heap[r]) \cup {"new"} :
              cfg' = [cfg EXCEPT !.mutated = TRUE,
                                 !.heap[r] = Put(cfg.heap[r], k, Val("str", "changed", 0))]
    /\ UNCHANGED stepVars

InitMerge ==
    /\ store = <<>>
    /\ store0 = <<>>
    /\ plan = <<>>
    /\ idx = 0
    /\ pc = "idle"
    /\ log = <<>>
    /\ self = NoStep
    /\ risk = STABLE
    /\ embedded = embedded_manifest_path(STABLE)
    /\ caas_config = "absent"
    /\ result = NoResult
    /\ lastDone = NoInputs
    /\ procs = <<>>
    /\ \E x \in Parts("a"), y \in Parts("b") : cfg = MergeCfg(x, y)

NextMerge ==
    \/ Manifest_merge_call
    \/ mutate_result

SpecMerge == InitMerge /\ [][NextMerge]_vars

(***************************************************************************)
(* Properties of merge                                                     *)
(***************************************************************************)
MergeDone == cfg.op = "merge" /\ cfg.done /\ ~cfg.mutated
Out == Deep(cfg.heap, cfg.out)
Field(tree, k) == Get(tree.d, k)

\* the items of a section of a manifest read out in full
Section(tree, s) ==
    IF s = "deployment" THEN Field(tree, "deployment").d
    ELSE Field(Field(tree, "software"), s).d

\* C11: a charm named in both layers is combined field by field; a field the
\* override leaves None keeps the value of the base
C11_FieldByField ==
    MergeDone =>
        \A n \in Keys(Section(cfg.a0, "charms")) \cap Keys(Section(cfg.b0, "charms")) :
            /\ n \in Keys(Section(Out, "charms"))
            /\ \A f \in {"channel", "revision", "config"} :
                   Field(Get(Section(Out, "charms"), n), f) =
                       IF Field(Get(Section(cfg.b0, "charms"), n), f).t = "None"
                       THEN Field(Get(Section(cfg.a0, "charms"), n), f)
                       ELSE Field(Get(Section(cfg.b0, "charms"), n), f)

\* C12: a key of one layer only keeps that layer's value, a key of both with
\* non-mapping values takes the override's, and the juju arguments the
\* override does not give are those of the base
C12_Precedence ==
    MergeDone =>
        /\ \A s \in {"deployment", "charms", "terraform", "extra"} :
               LET A == Section(cfg.a0, s)
                   B == Section(cfg.b0, s)
                   O == Section(Out, s)
               IN /\ Keys(A) \cup Keys(B) \subseteq Keys(O)
                  /\ \A k \in Keys(A) \ Keys(B) : Get(O, k) = Get(A, k)
                  /\ \A k \in Keys(B) \ Keys(A) : Get(O, k) = Get(B, k)
                  /\ \A k \in Keys(A) \cap Keys(B) :
                         ~(Get(A, k).t = "dict" /\ Get(B, k).t = "dict")
                             => Get(O, k) = Get(B, k)
        /\ \A f \in {"bootstrap_args", "scale_args"} :
               Get(Section(cfg.b0, "juju"), f).s = ""
                   => Get(Section(Out, "juju"), f) = Get(Section(cfg.a0, "juju"), f)

\* C13: the operands hold after the call, and after a later change of the
\* result, what they held before; the result shares no object with them
C13_Pure ==
    cfg.op = "merge" =>
        /\ Deep(cfg.heap, cfg.a) = cfg.a0
        /\ Deep(cfg.heap, cfg.b) = cfg.b0
        /\ Reach(cfg.heap, cfg.out)
               \cap (Reach(cfg.heap, cfg.a) \cup Reach(cfg.heap, cfg.b)) = {}

C13_Witness ==
    /\ cfg.op = "merge"
    /\ cfg.mutated
    /\ Section(cfg.a0, "charms") # <<>>
    /\ Section(cfg.b0, "charms") # <<>>
    /\ Out # Deep(cfg.heap, NewManifest(<<>>, EmptyParts).v)

(***************************************************************************)
(* Two plans at once: each is run_plan over one AddManifestStep, both on   *)
(* the same cluster database                                               *)
(***************************************************************************)
\* a plan and its step: where run_plan is, the last call, its outcome, the
\* answer the probe got and what the store held when run was called
Proc(s) ==
    [self |-> s, pc |-> "is_skip", op |-> "none", result |-> NoResult,
     seen |-> get_latest_manifest(<<>>, FALSE), up |-> FALSE, before |-> <<>>]

race_is_skip(p) ==
    /\ procs[p].pc = "is_skip"
    /\ \E up \in BOOLEAN :
        LET resp == get_latest_manifest(store, up)
            r == is_skip(procs[p].self, risk, embedded, resp)
            next == AfterIsSkip(r.out.type, 1, <<"AddManifestStep">>)
        IN procs' = [procs EXCEPT ![p] =
                        [self |-> [procs[p].self EXCEPT
                                       !.manifest_content = r.manifest_content],
                         pc |-> next.pc, op |-> "is_skip", result |-> r.out,
                         seen |-> resp, up |-> up, before |-> <<>>]]
    /\ UNCHANGED <<store, store0, plan, idx, pc, log, self, risk, embedded,
                   caas_config, result, lastDone, cfg>>

race_run(p) ==
    /\ procs[p].pc = "run"
    /\ \E up \in BOOLEAN :
        LET r == run(procs[p].self, store, up)
            next == AfterRun(r.out.type, 1, <<"AddManifestStep">>)
        IN /\ store' = r.store
           /\ procs' = [procs EXCEPT ![p] =
                           [procs[p] EXCEPT !.pc = next.pc, !.op = "run",
                                            !.result = r.out, !.up = up,
                                            !.before = store]]
    /\ UNCHANGED <<store0, plan, idx, pc, log, self, risk, embedded,
                   caas_config, result, lastDone, cfg>>

RaceFiles == {Doc("A", "canon"), Doc("A", "alt"), Doc("B", "canon"), NoFile}

InitRace ==
    /\ store \in InitStores
    /\ store0 = store
    /\ plan = <<>>
    /\ idx = 0
    /\ pc = "idle"
    /\ log = <<>>
    /\ self = NoStep
    /\ risk \in RiskLevel
    /\ embedded = embedded_manifest_path(risk)
    /\ caas_config = "absent"
    /\ result = NoResult
    /\ lastDone = NoInputs
    /\ cfg = NoCfg
    /\ \E f1 \in RaceFiles, f2 \in RaceFiles, c1 \in BOOLEAN, c2 \in BOOLEAN :
           procs = <<Proc(AddManifestStep(f1, c1)), Proc(AddManifestStep(f2, c2))>>

NextRace ==
    \/ \E p \in DOMAIN procs : race_is_skip(p)
    \/ \E p \in DOMAIN procs : race_run(p)

SpecRace == InitRace /\ [][NextRace]_vars

Ran(p) == procs[p].op = "run"
Wrote(p) == Ran(p) /\ procs[p].result.type = COMPLETED

\* C14: nothing between probe and write looks at the store again: a run the
\* probe let through is refused only by a store that is unavailable, it
\* appends its content to whatever the store holds by then, and every such
\* write is in the store
C14_NoCompareAndSwap ==
    /\ \A p \in DOMAIN procs :
           Ran(p) =>
               /\ procs[p].result.type = COMPLETED <=> procs[p].up
               /\ Wrote(p) =>
                      /\ Len(store) > Len(procs[p].before)
                      /\ store[Len(procs[p].before) + 1]
                             = safe_dump(procs[p].self.manifest_content)
    /\ procs # <<>> =>
           Len(store) = Len(store0) + Cardinality({p \in DOMAIN procs : Wrote(p)})

\* both probes got the same latest snapshot, both runs wrote, and the second
\* write repeats the content that was the latest when it was made
C14_Witness ==
    /\ procs # <<>>
    /\ Wrote(1)
    /\ Wrote(2)
    /\ procs[1].seen = procs[2].seen
    /\ procs[1].seen.kind = "found"
    /\ Len(store) = Len(store0) + 2
    /\ safe_load(store[Len(store)]) = safe_load(store[Len(store) - 1])

(***************************************************************************)
(* Properties of the store within one plan                                 *)
(***************************************************************************)
\* the calls of AddManifestStep.run made by the plan so far
Runs == {i \in DOMAIN log : log[i].op = "run" /\ plan[log[i].step] = "AddManifestStep"}

\* C15: is_skip leaves the store as it is whatever it returns; the store
\* changes only by a run that returns COMPLETED, which appends one snapshot;
\* a plan calls run of its step at most once, and a run whose write failed
\* leaves the store as it was
C15_ProbeReadOnly ==
    /\ Cardinality(Runs) <= 1
    /\ store = IF \E i \in Runs : log[i].type = COMPLETED
               THEN Append(store0, safe_dump(self.manifest_content))
               ELSE store0

\* the probe asked for a run on a store that holds a snapshot, and the write failed
C15_Witness ==
    /\ store0 # <<>>
    /\ \E i \in DOMAIN log : log[i].op = "is_skip" /\ log[i].type = COMPLETED
                             /\ plan[log[i].step] = "AddManifestStep"
    /\ \E i \in Runs : log[i].type = FAILED
    /\ pc = "aborted"

(***************************************************************************)
(* CaasFeature.add_manifest_section                                        *)
(***************************************************************************)
MaxCalls == 2

\* a value held in SoftwareConfig.extra: its Python type and its items
Payload(type, val) == [type |-> type, val |-> val]
NonePayload == Payload("None", <<>>)

CaasFields == <<"image_name", "image_url", "container_format", "disk_format", "properties">>
FieldDefault(f) == IF f = "properties" THEN "{}" ELSE "None"

\* pydantic accepts the keyword arguments: image_name is a str or None
Validates(d) == \A i \in DOMAIN d : ~(d[i].k = "image_name" /\ d[i].v = "[]")

\* CaasConfig(**d): every field, the ones not given at their default
CaasConfig(d) ==
    Payload("CaasConfig",
            [i \in DOMAIN CaasFields |->
                Item(CaasFields[i],
                     IF CaasFields[i] \in Keys(d) THEN Get(d, CaasFields[i])
                     ELSE FieldDefault(CaasFields[i]))])

\* faulty variant: the already typed value is not recognised
add_manifest_section_Untyped(software_config) ==
    LET extra == software_config.extra
        entry == IF "caas_config" \in Keys(extra) THEN Get(extra, "caas_config")
                 ELSE NonePayload
    IN IF entry.type = "None"
       THEN [software_config |->
                 [software_config EXCEPT
                     !.extra = Put(extra, "caas_config", CaasConfig(<<>>))],
             raised |-> ""]
       ELSE IF entry.type = "dict"
       THEN IF Validates(entry.val)
            THEN [software_config |->
                      [software_config EXCEPT
                          !.extra = Put(extra, "caas_config", CaasConfig(entry.val))],
                  raised |-> ""]
            ELSE [software_config |-> software_config, raised |-> "ValidationError"]
       ELSE [software_config |-> software_config, raised |-> "ValueError"]

\* add_manifest_section: the software config it leaves and the exception, if any
add_manifest_section(software_config) ==
    LET extra == software_config.extra
        entry == IF "caas_config" \in Keys(extra) THEN Get(extra, "caas_config")
                 ELSE NonePayload
    IN IF entry.type = "None"
       THEN [software_config |->
                 [software_config EXCEPT
                     !.extra = Put(extra, "caas_config", CaasConfig(<<>>))],
             raised |-> ""]
       ELSE IF entry.type = "CaasConfig"
       THEN [software_config |-> software_config, raised |-> ""]
       ELSE IF entry.type = "dict"
       THEN IF Validates(entry.val)
            THEN [software_config |->
                      [software_config EXCEPT
                          !.extra = Put(extra, "caas_config", CaasConfig(entry.val))],
                  raised |-> ""]
            ELSE [software_config |-> software_config, raised |-> "ValidationError"]
       ELSE [software_config |-> software_config, raised |-> "ValueError"]

\* what the manifest may hold under caas_config
CaasEntries ==
    {NonePayload,
     CaasConfig(<<>>),
     CaasConfig(<<Item("image_name", "img")>>),
     Payload("dict", <<>>),
     Payload("dict", <<Item("image_name", "img")>>),
     Payload("dict", <<Item("image_url", "url"), Item("properties", "{a: 1}")>>),
     Payload("dict", <<Item("image_name", "[]")>>),
     Payload("str", <<>>),
     Payload("list", <<>>)}

\* the extra bags: caas_config absent or given, alone or beside another key
CaasExtras ==
    {<<>>, <<Item("other", Payload("str", <<>>))>>}
    \cup {<<Item("caas_config", e)>> : e \in CaasEntries}
    \cup {<<Item("other", Payload("dict", <<>>)), Item("caas_config", e)>> : e \in CaasEntries}
    \cup {<<Item("caas_config", e), Item("other", Payload("str", <<>>))>> : e \in CaasEntries}

CaasCfg(software_config) ==
    [op |-> "add_manifest_section", calls |-> 0, raised |-> "",
     software_config |-> software_config, before |-> software_config,
     first |-> software_config, first_raised |-> ""]

add_manifest_section_call ==
    /\ cfg.op = "add_manifest_section"
    /\ cfg.calls < MaxCalls
    /\ LET r == add_manifest_section(cfg.software_config)
       IN cfg' = [cfg EXCEPT
                     !.calls = @ + 1,
                     !.raised = r.raised,
                     !.software_config = r.software_config,
                     !.first = IF cfg.calls = 0 THEN r.software_config ELSE @,
                     !.first_raised = IF cfg.calls = 0 THEN r.raised ELSE @]
    /\ UNCHANGED stepVars

InitCaas ==
    /\ store = <<>>
    /\ store0 = <<>>
    /\ plan = <<>>
    /\ idx = 0
    /\ pc = "idle"
    /\ log = <<>>
    /\ self = NoStep
    /\ risk = STABLE
    /\ embedded = embedded_manifest_path(STABLE)
    /\ caas_config = "absent"
    /\ result = NoResult
    /\ lastDone = NoInputs
    /\ procs = <<>>
    /\ \E charms \in Dicts(CharmNames, ""), terraform \in Dicts(PlanNames, "") :
           \E extra \in CaasExtras :
               cfg = CaasCfg(SoftwareConfig(charms, terraform, extra))

NextCaas == add_manifest_section_call

SpecCaas == InitCaas /\ [][NextCaas]_vars

\* the value under caas_config; None when the key is absent
CaasEntry(software_config) ==
    IF "caas_config" \in Keys(software_config.extra)
    THEN Get(software_config.extra, "caas_config")
    ELSE NonePayload

\* the items of extra other than caas_config, in order
OtherItems(extra) == SelectSeq(extra, LAMBDA it : it.k # "caas_config")

\* C16: a typed value stays, a mapping becomes the CaasConfig built from it,
\* a missing (or None) value becomes the default CaasConfig, any other type
\* raises; after a call that succeeded the entry is a CaasConfig and nothing
\* else has changed, and a further call changes nothing
C16_Coercion ==
    (cfg.op = "add_manifest_section" /\ cfg.calls >= 1) =>
        LET was == CaasEntry(cfg.before)
            now == CaasEntry(cfg.first)
        IN /\ was.type = "CaasConfig" => cfg.first_raised = "" /\ now = was
           /\ (was.type = "dict" /\ Validates(was.val))
                  => cfg.first_raised = "" /\ now = CaasConfig(was.val)
           /\ was.type = "None" => cfg.first_raised = "" /\ now = CaasConfig(<<>>)
           /\ was.type \notin {"CaasConfig", "dict", "None"}
                  => cfg.first_raised = "ValueError"
           /\ cfg.first_raised = "" =>
                  /\ now.type = "CaasConfig"
                  /\ cfg.first.charms = cfg.before.charms
                  /\ cfg.first.terraform = cfg.before.terraform
                  /\ OtherItems(cfg.first.extra) = OtherItems(cfg.before.extra)
                  /\ cfg.software_config = cfg.first
                  /\ cfg.raised = ""
           /\ cfg.first_raised # "" => cfg.first = cfg.before

\* a raw mapping beside another key was replaced, and a second call was made
C16_Witness ==
    /\ cfg.op = "add_manifest_section"
    /\ cfg.calls = 2
    /\ cfg.raised = ""
    /\ CaasEntry(cfg.before).type = "dict"
    /\ CaasEntry(cfg.before).val # <<>>
    /\ CaasEntry(cfg.software_config) = CaasConfig(CaasEntry(cfg.before).val)
    /\ "other" \in Keys(cfg.software_config.extra)

====
